---------------------------- MODULE Spec2Model ----------------------------
(***************************************************************************)
(* Verification model of scapy/automaton.py: the ObjectPipe, the tables    *)
(* Automaton_metaclass builds from the decorated members of an automaton   *)
(* class, and the Automaton runtime (start, next, run, run_condition,      *)
(* breakpoints, send, the io/oi pipe endpoints).                           *)
(*                                                                         *)
(* The automaton class driven here is the one declared by  decorated :     *)
(* user callbacks (state bodies, conditions, actions) are opaque to the    *)
(* runtime, so what a callback does on one invocation is a nondeterministic*)
(* choice among the outcomes its declaration allows.                       *)
(***************************************************************************)
EXTENDS Integers, Sequences, FiniteSets, TLC

(***************************************************************************)
(* Bounds of the model.                                                    *)
(***************************************************************************)
MaxPkts == 2        \* frames delivered to one listening socket
MaxObjs == 2        \* objects sent through one ObjectPipe
MaxElapsed == 3     \* time units that may pass inside one dispatch loop
MaxStarts == 2      \* calls of start() in one behaviour
MaxSends == 2       \* calls of the public send() on one session log
MaxEnv == 3         \* inputs in one behaviour: frames, objects, API calls
MaxPipeSends == 4   \* calls of send() on the pipe of PipeSpec

(***************************************************************************)
(* Python values.  A value is a record [t, v]: None, a scalar or a list.   *)
(***************************************************************************)
NoneV == [t |-> "None", v |-> <<>>]
Val(x) == [t |-> "val", v |-> <<x>>]
ListV(s) == [t |-> "list", v |-> s]

Range(s) == {s[i] : i \in DOMAIN s}

\* list.sort(cmp) is stable: s sorted by the parallel key sequence k.
RECURSIVE SortStable(_, _)
SortStable(s, k) ==
    IF Len(s) <= 1 THEN s
    ELSE LET n == Len(s)
             front == SortStable(SubSeq(s, 1, n - 1), SubSeq(k, 1, n - 1))
             fk == SortStable(SubSeq(k, 1, n - 1), SubSeq(k, 1, n - 1))
             pos == Cardinality({i \in 1..(n - 1) : fk[i] <= k[n]})
         IN SubSeq(front, 1, pos) \o <<s[n]>> \o SubSeq(front, pos + 1, n - 1)


(***************************************************************************)
(* ATMT: the tags the decorators stamp on the members of an automaton      *)
(* class.  A member is one record; the fields a decorator does not set     *)
(* hold a default.  targets/must/reads/ret/mayraise describe the user code *)
(* of the member: the transition requests a condition may raise (must: it  *)
(* always raises one; reads: it first calls fd.recv() on the pipe it is    *)
(* handed), the value a state body returns, whether an action may raise.   *)
(***************************************************************************)
ATMT_STATE == "State"
ATMT_ACTION == "Action"
ATMT_CONDITION == "Condition"
ATMT_RECV == "Receive condition"
ATMT_TIMEOUT == "Timeout condition"
ATMT_IOEVENT == "I/O event"

ArgV == [t |-> "arg", v |-> <<>>]   \* marker: the body returns its argument
ObjV == [t |-> "obj", v |-> <<>>]   \* marker: the object read from the pipe

Member == [type |-> "", name |-> "", state |-> "", prio |-> 0, ioname |-> "",
           timeout |-> 0, cond |-> {}, initial |-> FALSE, final |-> FALSE,
           error |-> FALSE, ret |-> NoneV, targets |-> {}, must |-> FALSE,
           reads |-> FALSE, mayraise |-> FALSE]

\* @ATMT.state(initial, final, error)
state(name, initial, final, error, ret) ==
    [Member EXCEPT !.type = ATMT_STATE, !.name = name, !.state = name,
                   !.initial = initial, !.final = final, !.error = error,
                   !.ret = ret]

\* @ATMT.condition(state, prio)
condition(name, st, prio, targets, must) ==
    [Member EXCEPT !.type = ATMT_CONDITION, !.name = name, !.state = st,
                   !.prio = prio, !.targets = targets, !.must = must]

\* @ATMT.receive_condition(state, prio)
receive_condition(name, st, prio, targets, must) ==
    [Member EXCEPT !.type = ATMT_RECV, !.name = name, !.state = st,
                   !.prio = prio, !.targets = targets, !.must = must]

\* @ATMT.ioevent(state, name, prio)
ioevent(name, st, ioname, prio, targets, must, reads) ==
    [Member EXCEPT !.type = ATMT_IOEVENT, !.name = name, !.state = st,
                   !.ioname = ioname, !.prio = prio, !.targets = targets,
                   !.must = must, !.reads = reads]

\* @ATMT.timeout(state, timeout)
timeout(name, st, tmo, targets, must) ==
    [Member EXCEPT !.type = ATMT_TIMEOUT, !.name = name, !.state = st,
                   !.timeout = tmo, !.targets = targets, !.must = must]

\* @ATMT.action(cond, prio), possibly stacked: cond is the atmt_cond dict,
\* a set of <<condition name, priority>> pairs.
action(name, conds, mayraise) ==
    [Member EXCEPT !.type = ATMT_ACTION, !.name = name, !.cond = conds,
                   !.mayraise = mayraise]

\* A transition request, ATMT.NewStateRequested: the target and its argument.
NewStateRequested(st, arg) == [state |-> st, arg |-> arg]

(***************************************************************************)
(* The members of the automaton class, in the order the metaclass meets    *)
(* them (decorated).  Priorities and deadlines are deliberately not in     *)
(* declaration order.                                                      *)
(***************************************************************************)
decorated ==
    << state("BEGIN", TRUE, FALSE, FALSE, NoneV),
       state("WAIT", FALSE, FALSE, FALSE, ListV(<<1, 2>>)),
       state("IDLE", FALSE, FALSE, FALSE, NoneV),
       state("MID", FALSE, FALSE, FALSE, ArgV),
       state("DEAD", FALSE, FALSE, FALSE, Val(5)),
       state("ACK", FALSE, TRUE, FALSE, ArgV),
       state("END", FALSE, TRUE, FALSE, ArgV),
       state("ERR", FALSE, FALSE, TRUE, Val(13)),
       state("ERRFIN", FALSE, TRUE, TRUE, Val(99)),
       state("POLL", FALSE, FALSE, FALSE, NoneV),
       state("LINGER", FALSE, FALSE, FALSE, NoneV),
       condition("go_any", "BEGIN", 2,
                 { NewStateRequested("WAIT", NoneV),
                   NewStateRequested("IDLE", NoneV),
                   NewStateRequested("DEAD", NoneV),
                   NewStateRequested("ERR", NoneV),
                   NewStateRequested("ERRFIN", NoneV),
                   NewStateRequested("POLL", NoneV),
                   NewStateRequested("LINGER", NoneV) }, FALSE),
       condition("go_mid", "BEGIN", 1,
                 { NewStateRequested("MID", Val(3)) }, FALSE),
       condition("mid_end", "MID", 0,
                 { NewStateRequested("END", Val(42)) }, FALSE),
       receive_condition("r_seven", "WAIT", 1,
                 { NewStateRequested("END", Val(7)) }, FALSE),
       receive_condition("r_any", "WAIT", 0,
                 { NewStateRequested("MID", NoneV) }, FALSE),
       ioevent("ev_aux", "WAIT", "aux", 0,
                 { NewStateRequested("MID", Val(4)) }, FALSE, FALSE),
       ioevent("ev_go", "IDLE", "cmd", 0,
                 { NewStateRequested("ACK", ObjV) }, TRUE, TRUE),
       timeout("t_giveup", "WAIT", 2,
                 { NewStateRequested("END", NoneV) }, FALSE),
       timeout("t_resend", "WAIT", 1,
                 { NewStateRequested("WAIT", NoneV) }, FALSE),
       condition("p_now", "POLL", 0,
                 { NewStateRequested("END", Val(1)) }, FALSE),
       receive_condition("r_poll", "POLL", 0,
                 { NewStateRequested("END", Val(2)) }, FALSE),
       ioevent("ev_hi", "POLL", "aux", 2,
                 { NewStateRequested("END", Val(3)) }, FALSE, FALSE),
       ioevent("ev_lo", "POLL", "aux", 1, {}, FALSE, FALSE),
       timeout("t_zero", "POLL", 0,
                 { NewStateRequested("END", Val(4)) }, FALSE),
       timeout("t_last", "LINGER", 1, {}, FALSE),
       action("act_a", { <<"r_seven", 2>>, <<"mid_end", 0>> }, FALSE),
       action("act_b", { <<"r_seven", 1>> }, TRUE) >>

(***************************************************************************)
(* Automaton_metaclass.__new__: the dispatch tables.                       *)
(***************************************************************************)
IsState(m) == m.type = ATMT_STATE
IsCond(m) == m.type \in {ATMT_CONDITION, ATMT_RECV, ATMT_TIMEOUT, ATMT_IOEVENT}

\* cls.states: name -> state member (its keys are StateNames)
StateNames == {m.name : m \in {x \in Range(decorated) : IsState(x)}}
states == [s \in StateNames |->
             CHOOSE m \in Range(decorated) : IsState(m) /\ m.name = s]

\* cls.initial_states
initial_states == SelectSeq(decorated, LAMBDA m : IsState(m) /\ m.initial)

\* the members of one type bound to state s, in decorated order
OfState(type, s) ==
    SelectSeq(decorated, LAMBDA m : m.type = type /\ m.state = s)

Prios(ms) == [i \in DOMAIN ms |-> ms[i].prio]
Deadlines(ms) == [i \in DOMAIN ms |-> ms[i].timeout]

\* mutant: the timeouts of a state evaluated ahead of its immediate conditions
conditions_AfterTimeouts ==
    [s \in StateNames |->
        LET ms == OfState(ATMT_CONDITION, s)
        IN OfState(ATMT_TIMEOUT, s) \o SortStable(ms, Prios(ms))]

\* cls.conditions, cls.recv_conditions, cls.ioevents: sorted by atmt_prio
conditions == [s \in StateNames |->
                 LET ms == OfState(ATMT_CONDITION, s) IN SortStable(ms, Prios(ms))]
recv_conditions == [s \in StateNames |->
                 LET ms == OfState(ATMT_RECV, s) IN SortStable(ms, Prios(ms))]
ioevents == [s \in StateNames |->
                 LET ms == OfState(ATMT_IOEVENT, s) IN SortStable(ms, Prios(ms))]

\* cls.timeout: sorted by deadline, then the sentinel (None, None)
Sentinel == [Member EXCEPT !.type = "None", !.timeout = -1]
\* mutant: the timeouts left in the order of decorated
timeouts_Unsorted == [s \in StateNames |->
                        Append(OfState(ATMT_TIMEOUT, s), Sentinel)]

timeouts == [s \in StateNames |->
                 LET ms == OfState(ATMT_TIMEOUT, s)
                 IN Append(SortStable(ms, Deadlines(ms)), Sentinel)]

\* cls.actions: condition name -> actions sorted by atmt_cond[condname]
CondNames == {m.name : m \in {x \in Range(decorated) : IsCond(x)}}
ActPrio(m, c) == (CHOOSE p \in m.cond : p[1] = c)[2]
actions == [c \in CondNames |->
              LET ms == SelectSeq(decorated, LAMBDA m :
                            m.type = ATMT_ACTION /\ \E p \in m.cond : p[1] = c)
              IN SortStable(ms, [i \in DOMAIN ms |-> ActPrio(ms[i], c)])]

\* cls.ionames: one entry per I/O-event member
ionames == LET ms == SelectSeq(decorated, LAMBDA m : m.type = ATMT_IOEVENT)
           IN [i \in DOMAIN ms |-> ms[i].ioname]
IoNames == Range(ionames)


(***************************************************************************)
(* Automaton_metaclass.__new__ for any list of decorated members d: the    *)
(* tables are filled by indexing with atmt_state and with the condition    *)
(* names (a KeyError for a name no member declared); nothing else is       *)
(* tested.                                                                 *)
(***************************************************************************)
DeclStates(d) == {d[i].name : i \in {j \in DOMAIN d : IsState(d[j])}}
DeclConds(d) == {d[i].name : i \in {j \in DOMAIN d : IsCond(d[j])}}

\* mutant: a missing key is created on the fly, no lookup fails
KeyErrors_Never(d) == FALSE

\* cls.conditions[m.atmt_state] / cls.actions[c] with a key that is not there
KeyErrors(d) ==
    \E i \in DOMAIN d :
       \/ IsCond(d[i]) /\ d[i].state \notin DeclStates(d)
       \/ d[i].type = ATMT_ACTION
          /\ \E p \in d[i].cond : p[1] \notin DeclConds(d)

\* the members of one type bound to state s in d, in the order of d
TableOf(d, type, s) ==
    SelectSeq(d, LAMBDA m : m.type = type /\ m.state = s)
ByPrio(ms) == SortStable(ms, Prios(ms))
ByDeadline(ms) == SortStable(ms, Deadlines(ms))

Automaton_metaclass(d) ==
    [ exc |-> IF KeyErrors(d) THEN "KeyError" ELSE "None",
      states |-> DeclStates(d),
      initial_states |-> SelectSeq(d, LAMBDA m : IsState(m) /\ m.initial),
      conditions |-> [s \in DeclStates(d) |->
                        ByPrio(TableOf(d, ATMT_CONDITION, s))],
      recv_conditions |-> [s \in DeclStates(d) |->
                        ByPrio(TableOf(d, ATMT_RECV, s))],
      ioevents |-> [s \in DeclStates(d) |->
                        ByPrio(TableOf(d, ATMT_IOEVENT, s))],
      timeout |-> [s \in DeclStates(d) |->
                        Append(ByDeadline(TableOf(d, ATMT_TIMEOUT, s)), Sentinel)],
      actions |-> [c \in DeclConds(d) |->
                     LET ms == SelectSeq(d, LAMBDA m :
                                  m.type = ATMT_ACTION /\ \E p \in m.cond : p[1] = c)
                     IN SortStable(ms, [i \in DOMAIN ms |-> ActPrio(ms[i], c)])],
      ionames |-> LET ms == SelectSeq(d, LAMBDA m : m.type = ATMT_IOEVENT)
                  IN [i \in DOMAIN ms |-> ms[i].ioname] ]

\* the threads that call run() on one instance: the caller of run() itself
\* and the workers of two run_bg() calls
Threads == {"fg", "bg1", "bg2"}

\* no class built yet, no instance made yet
NoClass == [built |-> FALSE, decl |-> <<>>, reg |-> Automaton_metaclass(<<>>)]
NoInstance == [made |-> FALSE, running |-> FALSE, state |-> "None",
               exc |-> "None"]

(***************************************************************************)
(* State.                                                                  *)
(*   self     the Automaton instance: running, breakpointed, breakpoints,  *)
(*            state (the current NewStateRequested), packets (the session  *)
(*            log), send_sock, listen_sock                                 *)
(*   pipes    the ObjectPipes self.ioin[n] and self.ioout[n]               *)
(*   sockq    frames pending on the listening socket                       *)
(*   wire     packets the send socket has taken                            *)
(*   pc       where the driving thread is: "idle" (in no call), "step"     *)
(*            (about to execute next()), "select" (blocked in select)      *)
(*   caller   the call in progress: "run" or "next"                        *)
(*   loop     the locals of next() while it is in its dispatch loop        *)
(*   elapsed  time.time() - t0                                             *)
(*   result   how the last call of the API ended                           *)
(*   trace    the callbacks invoked by the last executed part of next()    *)
(*   nenv     inputs so far: frames, pipe objects, breakpoint and send     *)
(*            calls                                                        *)
(*   snap     state, log and breakpoint set when the body of the last step *)
(*            was about to be entered                                      *)
(*   fired    ids of the packets for which a receive condition requested a *)
(*            transition, since the session log was created                *)
(*   got      the last object an endpoint recv() returned                  *)
(*   nstart   calls of start() so far                                      *)
(*   ninj     frames delivered so far to the current listening socket      *)
(*   pp, ppc, psent, precv                                                 *)
(*            one ObjectPipe used by concurrent threads, statement by      *)
(*            statement (PipeSpec): the pipe, where each thread is, the    *)
(*            objects whose send() began, the objects recv() returned      *)
(***************************************************************************)
VARIABLES self, pipes, sockq, wire, pc, caller, loop, elapsed, result,
          trace, snap, fired, got, nstart, ninj, nenv,
          pp, ppc, psent, precv,
          mcls, minst,
          tpc, trunning, tstarts

avars == <<self, pipes, sockq, wire, pc, caller, loop, elapsed, result,
           trace, snap, fired, got, nstart, ninj, nenv>>
pvars == <<pp, ppc, psent, precv>>
mvars == <<mcls, minst>>
tvars == <<tpc, trunning, tstarts>>
vars == <<avars, pvars, mvars, tvars>>

(***************************************************************************)
(* ObjectPipe: a deque and the OS pipe's unread bytes.                     *)
(***************************************************************************)
ObjectPipe == [queue |-> <<>>, bytes |-> 0]

\* the statements of send and recv
queue_append(p, obj) == [p EXCEPT !.queue = Append(@, obj)]
\* mutant: send() writes two bytes for one object
os_write_Twice(p) == [p EXCEPT !.bytes = @ + 2]

os_write(p) == [p EXCEPT !.bytes = @ + 1]
\* mutant: the byte looked at and left in the pipe
os_read_Peek(p) == p

os_read(p) == [p EXCEPT !.bytes = @ - 1]       \* blocks while bytes = 0
\* mutant: the object taken from the right end of the deque
queue_pop(p) ==
    [pipe |-> [p EXCEPT !.queue = SubSeq(@, 1, Len(@) - 1)],
     obj |-> p.queue[Len(p.queue)]]

queue_popleft(p) == [pipe |-> [p EXCEPT !.queue = Tail(@)], obj |-> Head(p.queue)]

\* send: queue.append(obj); os.write(wr, "X")
ObjectPipe_send(p, obj) == os_write(queue_append(p, obj))

\* recv, called with a byte available: os.read(rd, 1); queue.popleft()
ObjectPipe_recv(p) == queue_popleft(os_read(p))

\* select() reports the read end readable
Readable(p) == p.bytes > 0

(***************************************************************************)
(* Automaton.__init__: per name of ionames two pipes, and the endpoints    *)
(* io.<n> = _IO_wrapper(ioout, ioin), oi.<n> = _IO_wrapper(ioin, ioout).   *)
(***************************************************************************)
PipeIds == {"ioin", "ioout"} \X IoNames

\* mutant: both endpoints read ioin and write ioout
IO_wrapper_Straight(side, n) ==
    IF side = "io" THEN [rd |-> <<"ioin", n>>, wr |-> <<"ioout", n>>]
                   ELSE [rd |-> <<"ioin", n>>, wr |-> <<"ioout", n>>]

IO_wrapper(side, n) ==
    IF side = "io" THEN [rd |-> <<"ioout", n>>, wr |-> <<"ioin", n>>]
                   ELSE [rd |-> <<"ioin", n>>, wr |-> <<"ioout", n>>]

\* the descriptors os.pipe() hands out: (rd, wr) of ioin[n], then of ioout[n],
\* for the names of ionames in order; 0, 1, 2 are taken.
FirstIndex(n) == CHOOSE i \in DOMAIN ionames :
                    ionames[i] = n /\ \A j \in DOMAIN ionames : ionames[j] = n => j <= i
PipeRd(id) == 3 + 4 * (FirstIndex(id[2]) - 1) + (IF id[1] = "ioin" THEN 0 ELSE 2)
PipeWr(id) == PipeRd(id) + 1

\* ObjectPipe.fileno and _IO_wrapper.fileno
ObjectPipe_fileno(id) == PipeRd(id)
IO_wrapper_fileno(side, n) == ObjectPipe_fileno(IO_wrapper(side, n).rd)

\* the object endpoint <side>.<n> sends: objects are told apart by sender
Obj(side, n) == 10 * FirstIndex(n) + (IF side = "io" THEN 1 ELSE 2)

NoState == NewStateRequested("None", NoneV)
NoLog == [defined |-> FALSE, list |-> <<>>]
NewLog == [defined |-> TRUE, list |-> <<>>]

InitSelf == [running |-> FALSE, breakpointed |-> "None", breakpoints |-> {},
             state |-> NoState, packets |-> NoLog,
             send_sock |-> "undef", listen_sock |-> "undef"]

NoLoop == [out |-> <<>>, exp |-> 0, wake |-> -1]
NoResult == [kind |-> "None", value |-> NoneV, name |-> ""]
Result(k, v, n) == [kind |-> k, value |-> v, name |-> n]
NoGot == [side |-> "none", n |-> "", obj |-> 0]
NoSnap == [state |-> NoState, packets |-> NoLog, breakpoints |-> {}]
Snap(sf) == [state |-> sf.state, packets |-> sf.packets,
             breakpoints |-> sf.breakpoints]


(***************************************************************************)
(* The part of the state a call of next() works on, and what a callback    *)
(* invocation leaves in  trace .                                           *)
(***************************************************************************)
Mach == [self |-> self, pipes |-> pipes, sockq |-> sockq, fired |-> fired,
         got |-> got, wire |-> wire, ninj |-> ninj, snap |-> snap,
         trace |-> <<>>]

Call(kind, name, res) == [call |-> kind, name |-> name, res |-> res]
Traced(m, kind, name, res) ==
    [m EXCEPT !.trace = Append(@, Call(kind, name, res))]

\* How a part of next() ends: kind is "NewState" (next returns the request),
\* "block" (select is entered), or the exception raised.
Exit(m, kind, value, name) ==
    [m |-> m, kind |-> kind, value |-> value, name |-> name, loop |-> NoLoop]
Block(m, lp) ==
    [m |-> m, kind |-> "block", value |-> NoneV, name |-> "", loop |-> lp]

(***************************************************************************)
(* Automaton.start                                                         *)
(***************************************************************************)
\* mutant: running is set once the sockets and the log are there
start_RunningLast(m) ==
    LET s2 == [m.self EXCEPT !.state =
                  NewStateRequested(initial_states[1].name, NoneV)]
    IN { [m |-> [m EXCEPT !.self = [s2 EXCEPT !.send_sock = "open",
                                              !.listen_sock = "open",
                                              !.packets = NewLog,
                                              !.running = TRUE],
                          !.sockq = <<>>, !.ninj = 0,
                          !.fired = {}, !.wire = <<>>],
          exc |-> "None"],
         [m |-> [m EXCEPT !.self = s2], exc |-> "socket.error"],
         [m |-> [m EXCEPT !.self = [s2 EXCEPT !.send_sock = "open"]],
          exc |-> "socket.error"] }

start(m) ==
    LET s1 == [m.self EXCEPT !.running = TRUE]
    IN IF initial_states = <<>>
       THEN { [m |-> [m EXCEPT !.self = s1], exc |-> "IndexError"] }
       ELSE LET s2 == [s1 EXCEPT !.state =
                          NewStateRequested(initial_states[1].name, NoneV)]
            IN { \* both sockets open, a new session log
                 [m |-> [m EXCEPT !.self = [s2 EXCEPT !.send_sock = "open",
                                                      !.listen_sock = "open",
                                                      !.packets = NewLog],
                                  !.sockq = <<>>, !.ninj = 0,
                                  !.fired = {}, !.wire = <<>>],
                  exc |-> "None"],
                 \* conf.L3socket() raises
                 [m |-> [m EXCEPT !.self = s2], exc |-> "socket.error"],
                 \* conf.L2listen() raises
                 [m |-> [m EXCEPT !.self = [s2 EXCEPT !.send_sock = "open"]],
                  exc |-> "socket.error"] }

(***************************************************************************)
(* ATMT.NewStateRequested.run and the normalisation of its output          *)
(* (next, lines 376-379): None -> (), a list as is, else a 1-tuple.        *)
(***************************************************************************)
StateRun(req) ==
    IF states[req.state].ret = ArgV THEN req.arg ELSE states[req.state].ret

Tuple(s) == [t |-> "tuple", v |-> s]
Normalize(output) ==
    IF output.t = "None" THEN Tuple(<<>>)
    ELSE IF output.t = "list" THEN output
    ELSE Tuple(output.v)

\* mutant: every packet accepted
master_filter_All(pkt) == TRUE

\* Automaton.master_filter, the hook of lines 310-311 as the class overrides
\* it: the frames numbered below zero are the ones it rejects (the method of
\* the base class accepts every packet)
master_filter(pkt) == pkt > 0

(***************************************************************************)
(* Automaton.run_condition.  cond is invoked with pkt (0: no packet); the  *)
(* result is the set of ways the invocation can end, each [m, kind, req]   *)
(* with kind "pass" (the condition returned), "req" (a transition request  *)
(* re-raised after the actions), or the exception that escaped.            *)
(***************************************************************************)
Ended(m, kind, req) == [m |-> m, kind |-> kind, req |-> req]

\* mutant: an exception of an action swallowed, the next action run
RECURSIVE RunActions_Continues(_, _, _, _)
RunActions_Continues(acts, i, m, req) ==
    IF i > Len(acts) THEN { Ended(m, "req", req) }
    ELSE LET a == acts[i] IN
         RunActions_Continues(acts, i + 1, Traced(m, "action", a.name, "ok"), req)
         \cup { Ended(Traced(m, "action", a.name, "KeyboardInterrupt"),
                      "KeyboardInterrupt", req) }
         \cup ( IF a.mayraise
                THEN RunActions_Continues(acts, i + 1,
                        Traced(m, "action", a.name, "raise"), req)
                ELSE {} )

\* the actions of cond, in table order, from the i-th on
RECURSIVE RunActions(_, _, _, _)
RunActions(acts, i, m, req) ==
    IF i > Len(acts) THEN { Ended(m, "req", req) }
    ELSE LET a == acts[i] IN
         RunActions(acts, i + 1, Traced(m, "action", a.name, "ok"), req)
         \cup { Ended(Traced(m, "action", a.name, "KeyboardInterrupt"),
                      "KeyboardInterrupt", req) }
         \cup ( IF a.mayraise
                THEN { Ended(Traced(m, "action", a.name, "raise"),
                             "Exception", req) }
                ELSE {} )

run_condition(cond, m, pkt) ==
    LET \* the user code of an I/O-event condition that reads: oi.<n>.recv()
        rd == IO_wrapper("oi", cond.ioname).rd
        rcv == ObjectPipe_recv(m.pipes[rd])
        m1 == IF cond.reads
              THEN [m EXCEPT !.pipes[rd] = rcv.pipe,
                             !.got = [side |-> "oi", n |-> cond.ioname,
                                      obj |-> rcv.obj]]
              ELSE m
        Arg(r) == IF r.arg = ObjV THEN Val(rcv.obj) ELSE r.arg
        Taken(r) ==
            LET req == NewStateRequested(r.state, Arg(r))
                mt == Traced(m1, "cond", cond.name, "req")
            IN IF cond.type = ATMT_RECV
               THEN IF mt.self.packets.defined
                    THEN RunActions(actions[cond.name], 1,
                           [mt EXCEPT !.self.packets.list =
                                         Append(@, [id |-> pkt, copy |-> FALSE]),
                                      !.fired = @ \cup {pkt}], req)
                    ELSE { Ended([mt EXCEPT !.fired = @ \cup {pkt}],
                                 "Exception", req) }
               ELSE RunActions(actions[cond.name], 1, mt, req)
    IN UNION { Taken(r) : r \in cond.targets }
       \cup ( IF cond.must THEN {}
              ELSE { Ended(Traced(m1, "cond", cond.name, "pass"), "pass",
                           NoState) } )

\* mutant: the conditions after one that requested a transition still run
RECURSIVE RunConds_All(_, _, _, _)
RunConds_All(conds, i, m, pkt) ==
    IF i > Len(conds) THEN { Ended(m, "pass", NoState) }
    ELSE UNION { IF e.kind = "pass" THEN RunConds_All(conds, i + 1, e.m, pkt)
                 ELSE IF e.kind = "req"
                 THEN { IF x.kind = "pass" THEN Ended(x.m, "req", e.req) ELSE x
                        : x \in RunConds_All(conds, i + 1, e.m, pkt) }
                 ELSE {e} : e \in run_condition(conds[i], m, pkt) }

\* for cond in conds: self.run_condition(cond, ...), from the i-th on
RECURSIVE RunConds(_, _, _, _)
RunConds(conds, i, m, pkt) ==
    IF i > Len(conds) THEN { Ended(m, "pass", NoState) }
    ELSE UNION { IF e.kind = "pass" THEN RunConds(conds, i + 1, e.m, pkt)
                 ELSE {e} : e \in run_condition(conds[i], m, pkt) }


(***************************************************************************)
(* Automaton.next.  NextEnter is the call up to its first select (or its   *)
(* end), NextWake one turn of the dispatch loop from a return of select to *)
(* the next select (or the end of the call).                               *)
(***************************************************************************)
\* except ATMT.NewStateRequested (lines 429-432); any other exception escapes
\* mutant: the requested state installed whatever ended the condition
Leave_Commits(e) ==
    IF e.kind = "req"
    THEN Exit([e.m EXCEPT !.self.state = e.req], "NewState", NoneV, e.req.state)
    ELSE Exit([e.m EXCEPT !.self.state = e.req], e.kind, NoneV, "")

\* mutant: a step that ends with an exception restores the session log
Leave_Rollback(e) ==
    IF e.kind = "req"
    THEN Exit([e.m EXCEPT !.self.state = e.req], "NewState", NoneV, e.req.state)
    ELSE Exit([e.m EXCEPT !.self.packets = e.m.snap.packets], e.kind, NoneV, "")

Leave(e) ==
    IF e.kind = "req"
    THEN Exit([e.m EXCEPT !.self.state = e.req], "NewState", NoneV, e.req.state)
    ELSE Exit(e.m, e.kind, NoneV, "")

\* mutant: Stuck is raised once no timeout is left and nothing is polled
LoopTop_StuckWhenIdle(m, lp, t) ==
    LET st == m.self.state.state
        tm == timeouts[st][lp.exp]
        Select(m2, lp2) ==
            LET nt == timeouts[st][lp2.exp]
            IN IF nt = Sentinel
               THEN IF Len(recv_conditions[st]) = 0 /\ Len(ioevents[st]) = 0
                    THEN { Exit(m2, "Stuck", NoneV, st) }
                    ELSE { Block(Traced(m2, "select", "None", "ok"),
                                 [lp2 EXCEPT !.wake = -1]) }
               ELSE IF nt.timeout - t < 0
               THEN { Exit(Traced(m2, "select", "negative", "raise"),
                           "Exception", NoneV, "select.error") }
               ELSE { Block(Traced(m2, "select", "remain", "ok"),
                            [lp2 EXCEPT !.wake = nt.timeout]) }
    IN IF tm # Sentinel /\ tm.timeout <= t
       THEN UNION { IF e.kind = "pass"
                    THEN Select(e.m, [lp EXCEPT !.exp = @ + 1])
                    ELSE { Leave(e) } : e \in run_condition(tm, m, 0) }
       ELSE Select(m, lp)

\* lines 402-412: the timeout check at the top of a loop turn, at elapsed
\* time t, then the call of select
LoopTop(m, lp, t) ==
    LET st == m.self.state.state
        tm == timeouts[st][lp.exp]
        Select(m2, lp2) ==
            LET nt == timeouts[st][lp2.exp]
            IN IF nt = Sentinel
               THEN { Block(Traced(m2, "select", "None", "ok"),
                            [lp2 EXCEPT !.wake = -1]) }
               ELSE IF nt.timeout - t < 0
               THEN { Exit(Traced(m2, "select", "negative", "raise"),
                           "Exception", NoneV, "select.error") }
               ELSE { Block(Traced(m2, "select", "remain", "ok"),
                            [lp2 EXCEPT !.wake = nt.timeout]) }
    IN IF tm # Sentinel /\ tm.timeout <= t
       THEN UNION { IF e.kind = "pass"
                    THEN Select(e.m, [lp EXCEPT !.exp = @ + 1])
                    ELSE { Leave(e) } : e \in run_condition(tm, m, 0) }
       ELSE Select(m, lp)

\* mutant: the listening socket polled in every state
Fds_SockAlways(sf) ==
    LET evs == ioevents[sf.state.state]
    IN << <<"sock", "">> >> \o [i \in DOMAIN evs |-> <<"ioin", evs[i].ioname>>]

\* lines 396-400: fds, as <<"sock">> or <<"ioin", n>> entries
Fds(sf) ==
    LET st == sf.state.state
        evs == ioevents[st]
    IN (IF Len(recv_conditions[st]) > 0 THEN << <<"sock", "">> >> ELSE <<>>)
       \o [i \in DOMAIN evs |-> <<"ioin", evs[i].ioname>>]

\* mutant: the marker of the last pause not consulted
BreakpointHit_NoMarker(sf) == sf.state.state \in sf.breakpoints

\* line 363: the breakpoint test
BreakpointHit(sf) ==
    sf.state.state \in sf.breakpoints /\ sf.state.state # sf.breakpointed

\* lines 369-374: the terminal checks on the state whose body returned output
IsTerminal(st) == states[st].error \/ states[st].final
\* mutant: StopIteration raised with the normalised output
Terminal_Normalized(m, st, output) ==
    IF states[st].error
    THEN Exit([m EXCEPT !.self.running = FALSE], "ErrorState", output, st)
    ELSE Exit([m EXCEPT !.self.running = FALSE], "StopIteration",
              Normalize(output), "")

\* mutant: the final check made before the error check
Terminal_FinalFirst(m, st, output) ==
    IF states[st].final
    THEN Exit([m EXCEPT !.self.running = FALSE], "StopIteration", output, "")
    ELSE Exit([m EXCEPT !.self.running = FALSE], "ErrorState", output, st)

\* mutant: reaching a final or error state leaves the automaton running
Terminal_StaysRunning(m, st, output) ==
    IF states[st].error
    THEN Exit(m, "ErrorState", output, st)
    ELSE Exit(m, "StopIteration", output, "")

Terminal(m, st, output) ==
    IF states[st].error
    THEN Exit([m EXCEPT !.self.running = FALSE], "ErrorState", output, st)
    ELSE Exit([m EXCEPT !.self.running = FALSE], "StopIteration", output, "")

\* lines 386-388: no condition is left to wait for
\* mutant: the sentinel of the timeout list forgotten
IsStuck_NoSentinel(st) ==
    /\ Len(recv_conditions[st]) = 0
    /\ Len(ioevents[st]) = 0
    /\ Len(timeouts[st]) = 0

IsStuck(st) ==
    /\ Len(recv_conditions[st]) = 0
    /\ Len(ioevents[st]) = 0
    /\ Len(timeouts[st]) = 1

\* mutant: the immediate conditions are not evaluated
NextBody_NoConds(m0) ==
    LET st == m0.self.state.state
    IN IF BreakpointHit(m0.self)
       THEN { Exit([m0 EXCEPT !.self.breakpointed = st], "Breakpoint", NoneV, st) }
       ELSE
       LET m1 == [m0 EXCEPT !.self.breakpointed = "None"]
           output == StateRun(m1.self.state)
           m2 == Traced(m1, "body", st, "ok")
           out == Normalize(output)
       IN { Exit(Traced(m1, "body", st, "KeyboardInterrupt"),
                 "KeyboardInterrupt", NoneV, "") }
          \cup
          ( IF IsTerminal(st)
            THEN { Terminal(m2, st, output) }
            ELSE IF IsStuck(st)
            THEN { Exit(m2, "Stuck", out, st) }
            ELSE IF Len(recv_conditions[st]) > 0 /\ m2.self.listen_sock = "undef"
            THEN { Exit(m2, "Exception", NoneV, "AttributeError") }
            ELSE LoopTop(m2, [out |-> out.v, exp |-> 1, wake |-> -1], 0) )

\* lines 359-400
NextBody(m0) ==
    LET st == m0.self.state.state
    IN IF BreakpointHit(m0.self)
       THEN { Exit([m0 EXCEPT !.self.breakpointed = st], "Breakpoint", NoneV, st) }
       ELSE
       LET m1 == [m0 EXCEPT !.self.breakpointed = "None"]
           output == StateRun(m1.self.state)
           m2 == Traced(m1, "body", st, "ok")
           out == Normalize(output)
           After(m3) ==   \* lines 385-400, once the immediate conditions passed
               IF IsStuck(st)
               THEN { Exit(m3, "Stuck", out, st) }
               ELSE IF Len(recv_conditions[st]) > 0
                       /\ m3.self.listen_sock = "undef"
               THEN { Exit(m3, "Exception", NoneV, "AttributeError") }
               ELSE LoopTop(m3, [out |-> out.v, exp |-> 1, wake |-> -1], 0)
       IN { Exit(Traced(m1, "body", st, "KeyboardInterrupt"),
                 "KeyboardInterrupt", NoneV, "") }
          \cup
          ( IF IsTerminal(st)
            THEN { Terminal(m2, st, output) }
            ELSE UNION { IF e.kind = "pass" THEN After(e.m) ELSE { Leave(e) }
                         : e \in RunConds(conditions[st], 1, m2, 0) } )

\* lines 356-358, then the body
NextEnterOutcomes(m) ==
    IF m.self.running THEN NextBody([m EXCEPT !.snap = Snap(m.self)])
    ELSE UNION { IF s.exc = "None"
                 THEN NextBody([s.m EXCEPT !.snap = Snap(s.m.self)])
                 ELSE { Exit(s.m, "Exception", NoneV, s.exc) } : s \in start(m) }

\* what select returns: the entries of fds that are readable
IsReady(m, fd) ==
    IF fd[1] = "sock" THEN m.sockq # <<>> ELSE Readable(m.pipes[fd])
Ready(m) == SelectSeq(Fds(m.self), LAMBDA fd : IsReady(m, fd))

\* mutant: everything pending on the socket is read when it is readable, the
\* first frame alone is offered to the conditions
RECURSIVE ForFds_ReadsAll(_, _, _)
ForFds_ReadsAll(r, i, m) ==
    IF i > Len(r) THEN { Ended(m, "pass", NoState) }
    ELSE LET st == m.self.state.state
             fd == r[i]
             pkt == Head(m.sockq)
             mr == [m EXCEPT !.sockq = <<>>]
             evs == SelectSeq(ioevents[st], LAMBDA c : c.ioname = fd[2])
             done ==
                IF fd[1] = "sock"
                THEN IF pkt # 0
                     THEN IF master_filter(pkt)
                          THEN RunConds(recv_conditions[st], 1,
                                        Traced(mr, "recv", "pkt", "ok"), pkt)
                          ELSE { Ended(Traced(mr, "recv", "filtered", "ok"),
                                       "pass", NoState) }
                     ELSE { Ended(Traced(mr, "recv", "None", "ok"), "pass", NoState) }
                ELSE RunConds(evs, 1, m, 0)
         IN UNION { IF e.kind = "pass" THEN ForFds_ReadsAll(r, i + 1, e.m) ELSE {e}
                    : e \in done }

\* lines 413-427: for fd in r
RECURSIVE ForFds(_, _, _)
ForFds(r, i, m) ==
    IF i > Len(r) THEN { Ended(m, "pass", NoState) }
    ELSE LET st == m.self.state.state
             fd == r[i]
             pkt == Head(m.sockq)
             mr == [m EXCEPT !.sockq = Tail(@)]
             evs == SelectSeq(ioevents[st], LAMBDA c : c.ioname = fd[2])
             done ==
                IF fd[1] = "sock"
                THEN IF pkt # 0
                     THEN IF master_filter(pkt)
                          THEN RunConds(recv_conditions[st], 1,
                                        Traced(mr, "recv", "pkt", "ok"), pkt)
                          ELSE { Ended(Traced(mr, "recv", "filtered", "ok"),
                                       "pass", NoState) }
                     ELSE { Ended(Traced(mr, "recv", "None", "ok"), "pass", NoState) }
                ELSE RunConds(evs, 1, m, 0)
         IN UNION { IF e.kind = "pass" THEN ForFds(r, i + 1, e.m) ELSE {e}
                    : e \in done }

NextWakeOutcomes(m, lp, t) ==
    UNION { IF e.kind = "pass" THEN LoopTop(e.m, lp, t) ELSE { Leave(e) }
            : e \in ForFds(Ready(m), 1, m) }


(***************************************************************************)
(* The actions of the automaton's specification.                           *)
(***************************************************************************)
\* the names add_breakpoints/remove_breakpoints are called with
BpArgs == {"MID", "WAIT"}
\* the packets the public send is called with
SendArgs == {1, 5}

\* The end of a part of next(), seen from its caller: run() (lines 440-447)
\* catches KeyboardInterrupt (break: returns None) and StopIteration (returns
\* its argument); a direct call of next() gets whatever next() raised.
Finish(o) ==
    /\ self' = o.m.self
    /\ pipes' = o.m.pipes
    /\ sockq' = o.m.sockq
    /\ fired' = o.m.fired
    /\ got' = o.m.got
    /\ wire' = o.m.wire
    /\ ninj' = o.m.ninj
    /\ trace' = o.m.trace
    /\ snap' = o.m.snap
    /\ loop' = o.loop
    /\ UNCHANGED <<caller, nenv>>
    /\ IF o.kind = "block"
         THEN pc' = "select" /\ result' = result
       ELSE IF o.kind = "NewState"
         THEN IF caller = "run"
              THEN pc' = "step" /\ result' = result
              ELSE pc' = "idle" /\ result' = Result("Return", NoneV, o.name)
       ELSE IF o.kind = "StopIteration" /\ caller = "run"
         THEN pc' = "idle" /\ result' = Result("Return", o.value, "StopIteration")
       ELSE IF o.kind = "KeyboardInterrupt" /\ caller = "run"
         THEN pc' = "idle" /\ result' = Result("Return", NoneV, "break")
       ELSE pc' = "idle" /\ result' = Result(o.kind, o.value, o.name)

\* run(): lines 436-438; the loop is NextEnter/NextWake with caller = "run"
Run ==
    /\ pc = "idle"
    /\ self.running \/ nstart < MaxStarts
    /\ caller' = "run"
    /\ trace' = <<>>
    /\ snap' = NoSnap
    /\ UNCHANGED <<pipes, got, loop, elapsed, nenv>>
    /\ IF self.running
       THEN /\ pc' = "step"
            /\ result' = NoResult
            /\ UNCHANGED <<self, sockq, fired, wire, ninj, nstart>>
       ELSE /\ nstart' = nstart + 1
            /\ \E s \in start(Mach) :
                 /\ self' = s.m.self
                 /\ sockq' = s.m.sockq
                 /\ fired' = s.m.fired
                 /\ wire' = s.m.wire
                 /\ ninj' = s.m.ninj
                 /\ IF s.exc = "None"
                    THEN pc' = "step" /\ result' = NoResult
                    ELSE pc' = "idle" /\ result' = Result("Exception", NoneV, s.exc)

\* a direct call of next()
CallNext ==
    /\ pc = "idle"
    /\ self.running \/ nstart < MaxStarts
    /\ pc' = "step"
    /\ caller' = "next"
    /\ trace' = <<>>
    /\ snap' = NoSnap
    /\ result' = NoResult
    /\ UNCHANGED <<self, pipes, sockq, wire, loop, elapsed, fired, got,
                   nstart, ninj, nenv>>

NextEnter ==
    /\ pc = "step"
    /\ elapsed' = 0
    /\ nstart' = IF self.running THEN nstart ELSE nstart + 1
    /\ \E o \in NextEnterOutcomes(Mach) : Finish(o)

\* select returns: a descriptor is readable, or the timeout has run out
NextWake ==
    /\ pc = "select"
    /\ Ready(Mach) # <<>> \/ (loop.wake >= 0 /\ elapsed >= loop.wake)
    /\ UNCHANGED nstart
    /\ \E o \in NextWakeOutcomes(Mach, loop, elapsed) :
         /\ Finish(o)
         /\ elapsed' = IF o.kind = "block" THEN elapsed ELSE 0

\* the user interrupts while next() is blocked in select
Interrupt ==
    /\ pc = "select"
    /\ UNCHANGED nstart
    /\ elapsed' = 0
    /\ Finish(Exit(Traced(Mach, "select", "", "KeyboardInterrupt"),
                   "KeyboardInterrupt", NoneV, ""))

\* time passes while a timeout of the state is pending
Tick ==
    /\ pc = "select"
    /\ loop.wake >= 0
    /\ elapsed < MaxElapsed
    /\ elapsed' = elapsed + 1
    /\ UNCHANGED <<self, pipes, sockq, wire, pc, caller, loop, result,
                   trace, snap, fired, got, nstart, ninj, nenv>>

\* a frame reaches the listening socket: a packet, (0) one that recv() drops,
\* returning None, or (below zero) a packet that master_filter rejects
Inject ==
    /\ self.running
    /\ self.listen_sock = "open"
    /\ ninj < MaxPkts
    /\ nenv < MaxEnv
    /\ ninj' = ninj + 1
    /\ nenv' = nenv + 1
    /\ \E f \in {0, ninj + 1, -(ninj + 1)} : sockq' = Append(sockq, f)
    /\ UNCHANGED <<self, pipes, wire, pc, caller, loop, elapsed, result,
                   trace, snap, fired, got, nstart>>

\* what a call of the API outside run()/next() leaves
Called(kind, name) ==
    /\ nenv' = nenv + 1
    /\ result' = Result(kind, NoneV, name)
    /\ trace' = <<>>
    /\ snap' = NoSnap
    /\ UNCHANGED <<pipes, sockq, pc, caller, loop, elapsed, fired, got,
                   nstart, ninj>>

add_breakpoints(bp) ==
    /\ pc = "idle"
    /\ nenv < MaxEnv
    /\ self' = [self EXCEPT !.breakpoints = @ \cup {bp}]
    /\ UNCHANGED wire
    /\ Called("Return", "")

\* line 339 names pb, which is bound nowhere: a NameError when bp is set
remove_breakpoints(bp) ==
    /\ pc = "idle"
    /\ nenv < MaxEnv
    /\ UNCHANGED <<self, wire>>
    /\ IF bp \in self.breakpoints THEN Called("Exception", "NameError")
       ELSE Called("Return", "")

\* mutant: the copy logged before the packet is handed to the socket
send_LogFirst(pkt) ==
    /\ pc = "idle"
    /\ nenv < MaxEnv
    /\ Len(wire) < MaxSends
    /\ IF ~self.packets.defined
       THEN Called("Exception", "AttributeError") /\ UNCHANGED <<self, wire>>
       ELSE /\ self' = [self EXCEPT !.packets.list =
                           Append(@, [id |-> pkt, copy |-> TRUE])]
            /\ \/ Called("Exception", "socket.error") /\ UNCHANGED wire
               \/ Called("Return", "") /\ wire' = Append(wire, pkt)

\* send(pkt): my_send, then the copy is logged; the socket may refuse
send(pkt) ==
    /\ pc = "idle"
    /\ nenv < MaxEnv
    /\ Len(wire) < MaxSends
    /\ IF self.send_sock = "undef"
       THEN Called("Exception", "AttributeError") /\ UNCHANGED <<self, wire>>
       ELSE \/ Called("Exception", "socket.error") /\ UNCHANGED <<self, wire>>
            \/ /\ wire' = Append(wire, pkt)
               /\ IF self.packets.defined
                  THEN /\ self' = [self EXCEPT !.packets.list =
                                      Append(@, [id |-> pkt, copy |-> TRUE])]
                       /\ Called("Return", "")
                  ELSE Called("Exception", "AttributeError") /\ UNCHANGED self

\* <side>.<n>.send(obj) and <side>.<n>.recv() on the endpoints
IO_send(side, n) ==
    LET wr == IO_wrapper(side, n).wr
    IN /\ Len(pipes[wr].queue) < MaxObjs
       /\ nenv < MaxEnv
       /\ nenv' = nenv + 1
       /\ pipes' = [pipes EXCEPT ![wr] = ObjectPipe_send(@, Obj(side, n))]
       /\ UNCHANGED <<self, sockq, wire, pc, caller, loop, elapsed, result,
                      trace, snap, fired, got, nstart, ninj>>

IO_recv(side, n) ==
    LET rd == IO_wrapper(side, n).rd
        rcv == ObjectPipe_recv(pipes[rd])
    IN /\ Readable(pipes[rd])
       /\ pipes' = [pipes EXCEPT ![rd] = rcv.pipe]
       /\ got' = [side |-> side, n |-> n, obj |-> rcv.obj]
       /\ UNCHANGED <<self, sockq, wire, pc, caller, loop, elapsed, result,
                      trace, snap, fired, nstart, ninj, nenv>>

Init ==
    /\ self = InitSelf
    /\ pipes = [id \in PipeIds |-> ObjectPipe]
    /\ sockq = <<>>
    /\ wire = <<>>
    /\ pc = "idle"
    /\ caller = "none"
    /\ loop = NoLoop
    /\ elapsed = 0
    /\ result = NoResult
    /\ trace = <<>>
    /\ snap = NoSnap
    /\ fired = {}
    /\ got = NoGot
    /\ nstart = 0
    /\ ninj = 0
    /\ nenv = 0
    /\ pp = ObjectPipe /\ ppc = <<>> /\ psent = <<>> /\ precv = <<>>
    /\ mcls = NoClass /\ minst = NoInstance
    /\ tpc = [th \in Threads |-> "none"] /\ trunning = FALSE /\ tstarts = 0

Next ==
    \/ (Run /\ UNCHANGED <<pvars, mvars, tvars>>)
    \/ (CallNext /\ UNCHANGED <<pvars, mvars, tvars>>)
    \/ (NextEnter /\ UNCHANGED <<pvars, mvars, tvars>>)
    \/ (NextWake /\ UNCHANGED <<pvars, mvars, tvars>>)
    \/ (Interrupt /\ UNCHANGED <<pvars, mvars, tvars>>)
    \/ (Tick /\ UNCHANGED <<pvars, mvars, tvars>>)
    \/ (Inject /\ UNCHANGED <<pvars, mvars, tvars>>)
    \/ (\E bp \in BpArgs : add_breakpoints(bp) /\ UNCHANGED <<pvars, mvars, tvars>>)
    \/ (\E bp \in BpArgs : remove_breakpoints(bp) /\ UNCHANGED <<pvars, mvars, tvars>>)
    \/ (\E p \in SendArgs : send(p) /\ UNCHANGED <<pvars, mvars, tvars>>)
    \/ (\E n \in IoNames : IO_send("io", n) /\ UNCHANGED <<pvars, mvars, tvars>>)
    \/ (\E n \in IoNames : IO_send("oi", n) /\ UNCHANGED <<pvars, mvars, tvars>>)
    \/ (\E n \in IoNames : IO_recv("io", n) /\ UNCHANGED <<pvars, mvars, tvars>>)

Spec == Init /\ [][Next]_vars

(***************************************************************************)
(* Class construction: a class statement whose body declares some of the   *)
(* members of Pool runs Automaton_metaclass.__new__; an instance of the    *)
(* class is made and started.                                              *)
(***************************************************************************)
Pool ==
    << state("S0", TRUE, FALSE, FALSE, NoneV),
       state("S1", FALSE, FALSE, FALSE, NoneV),
       state("S2", FALSE, TRUE, FALSE, NoneV),
       state("S3", TRUE, FALSE, FALSE, NoneV),
       condition("c1", "S1", 0, { NewStateRequested("S2", NoneV) }, FALSE),
       timeout("t1", "S2", 1, { NewStateRequested("S1", NoneV) }, FALSE),
       receive_condition("r1", "S1", 0, { NewStateRequested("S2", NoneV) }, FALSE),
       ioevent("e1", "S2", "x", 0, { NewStateRequested("S1", NoneV) }, FALSE, FALSE),
       action("a1", { <<"c1", 0>>, <<"r1", 1>> }, FALSE) >>

\* class X(Automaton): <the members of D>
BuildClass ==
    /\ ~mcls.built
    /\ \E D \in SUBSET Range(Pool) :
         LET d == SelectSeq(Pool, LAMBDA m : m \in D)
         IN mcls' = [built |-> TRUE, decl |-> d, reg |-> Automaton_metaclass(d)]
    /\ UNCHANGED minst

\* X(): possible once the class statement has succeeded
Instantiate ==
    /\ mcls.built /\ mcls.reg.exc = "None"
    /\ ~minst.made
    /\ minst' = [NoInstance EXCEPT !.made = TRUE]
    /\ UNCHANGED mcls

\* start() of the instance, lines 341-354: running = True, then
\* initial_states[0] (an IndexError on an empty list), then the sockets
StartInstance ==
    /\ minst.made /\ ~minst.running
    /\ UNCHANGED mcls
    /\ IF mcls.reg.initial_states = <<>>
       THEN minst' = [minst EXCEPT !.running = TRUE, !.exc = "IndexError"]
       ELSE \E e \in {"None", "socket.error"} :
              minst' = [minst EXCEPT !.running = TRUE,
                                     !.state = mcls.reg.initial_states[1].name,
                                     !.exc = e]

MetaNext ==
    \/ (BuildClass /\ UNCHANGED <<avars, pvars, tvars>>)
    \/ (Instantiate /\ UNCHANGED <<avars, pvars, tvars>>)
    \/ (StartInstance /\ UNCHANGED <<avars, pvars, tvars>>)

MetaSpec == Init /\ [][MetaNext]_vars

(***************************************************************************)
(* run() and run_bg() called on one instance.  tpc is where each thread    *)
(* is: "none" (not called), "run" (line 437), "start" (start() called from *)
(* run), "loop" (line 442), "nstart" (start() called from next, line 358), *)
(* "next" (inside the try of next()), "done" (run() has ended).  trunning  *)
(* is self.running; tstarts counts the executions of start() since running *)
(* was last False.  No statement of run, run_bg, start or next takes a     *)
(* lock.                                                                   *)
(***************************************************************************)
\* run() called in the foreground
run ==
    /\ tpc["fg"] = "none"
    /\ tpc' = [tpc EXCEPT !["fg"] = "run"]
    /\ UNCHANGED <<trunning, tstarts>>

\* run_bg(): thread.start_new_thread(self.run, ...)
run_bg ==
    /\ \E th \in Threads \ {"fg"} :
         /\ tpc[th] = "none"
         /\ tpc' = [tpc EXCEPT ![th] = "run"]
    /\ UNCHANGED <<trunning, tstarts>>

\* line 437: if not self.running
RunTest(th) ==
    /\ tpc[th] = "run"
    /\ tpc' = [tpc EXCEPT ![th] = IF trunning THEN "loop" ELSE "start"]
    /\ UNCHANGED <<trunning, tstarts>>

\* lines 356-358, at the call of next(): if not self.running
NextTest(th) ==
    /\ tpc[th] = "loop"
    /\ tpc' = [tpc EXCEPT ![th] = IF trunning THEN "next" ELSE "nstart"]
    /\ UNCHANGED <<trunning, tstarts>>

\* start(): self.running = True is its first statement
ThreadStart(th) ==
    /\ tpc[th] \in {"start", "nstart"}
    /\ trunning' = TRUE
    /\ tstarts' = IF trunning THEN tstarts + 1 ELSE 1
    /\ tpc' = [tpc EXCEPT ![th] = IF tpc[th] = "start" THEN "loop" ELSE "next"]

\* next() ends: it returns the request (run loops), it reaches a final
\* state (running = False, StopIteration: run returns), or it raises
ThreadNextEnds(th) ==
    /\ tpc[th] = "next"
    /\ \/ tpc' = [tpc EXCEPT ![th] = "loop"] /\ UNCHANGED <<trunning, tstarts>>
       \/ /\ tpc' = [tpc EXCEPT ![th] = "done"]
          /\ trunning' = FALSE
          /\ UNCHANGED tstarts
       \/ tpc' = [tpc EXCEPT ![th] = "done"] /\ UNCHANGED <<trunning, tstarts>>

ThreadNext ==
    \/ (run /\ UNCHANGED <<avars, pvars, mvars>>)
    \/ (run_bg /\ UNCHANGED <<avars, pvars, mvars>>)
    \/ (\E th \in Threads : RunTest(th) /\ UNCHANGED <<avars, pvars, mvars>>)
    \/ (\E th \in Threads : NextTest(th) /\ UNCHANGED <<avars, pvars, mvars>>)
    \/ (\E th \in Threads : ThreadStart(th) /\ UNCHANGED <<avars, pvars, mvars>>)
    \/ (\E th \in Threads : ThreadNextEnds(th) /\ UNCHANGED <<avars, pvars, mvars>>)

ThreadSpec == Init /\ [][ThreadNext]_vars

\* select() returns once a descriptor of fds is readable or the timeout has
\* run out (line 411): a blocked step that can wake does wake
FairSpec == Spec /\ WF_vars(NextWake /\ UNCHANGED <<pvars, mvars, tvars>>)


(***************************************************************************)
(* PipeSpec: one ObjectPipe shared by threads that each run send() or      *)
(* recv() in a loop, one statement at a time.  A producer is at "append"   *)
(* (line 23) or "write" (line 24), a consumer at "read" (line 26) or "pop" *)
(* (line 27).  The k-th object whose send() begins is the number k.        *)
(***************************************************************************)
Producers == {"p1", "p2"}
Consumers == {"c1", "c2"}

\* the thread populations: one producer and one consumer, or two of each
PipeThreads == { {"p1", "c1"}, Producers \cup Consumers }

PipeInit ==
    /\ pp = ObjectPipe
    /\ \E T \in PipeThreads :
         ppc = [th \in T |-> IF th \in Producers THEN "append" ELSE "read"]
    /\ psent = <<>>
    /\ precv = <<>>
    /\ self = InitSelf
    /\ pipes = [id \in PipeIds |-> ObjectPipe]
    /\ sockq = <<>>
    /\ wire = <<>>
    /\ pc = "idle"
    /\ caller = "none"
    /\ loop = NoLoop
    /\ elapsed = 0
    /\ result = NoResult
    /\ trace = <<>>
    /\ snap = NoSnap
    /\ fired = {}
    /\ got = NoGot
    /\ nstart = 0
    /\ ninj = 0
    /\ nenv = 0
    /\ mcls = NoClass /\ minst = NoInstance
    /\ tpc = [th \in Threads |-> "none"] /\ trunning = FALSE /\ tstarts = 0

SendAppend(th) ==
    /\ ppc[th] = "append"
    /\ Len(psent) < MaxPipeSends
    /\ pp' = queue_append(pp, Len(psent) + 1)
    /\ psent' = Append(psent, Len(psent) + 1)
    /\ ppc' = [ppc EXCEPT ![th] = "write"]
    /\ UNCHANGED precv

SendWrite(th) ==
    /\ ppc[th] = "write"
    /\ pp' = os_write(pp)
    /\ ppc' = [ppc EXCEPT ![th] = "append"]
    /\ UNCHANGED <<psent, precv>>

RecvRead(th) ==
    /\ ppc[th] = "read"
    /\ pp.bytes > 0
    /\ pp' = os_read(pp)
    /\ ppc' = [ppc EXCEPT ![th] = "pop"]
    /\ UNCHANGED <<psent, precv>>

\* popleft on an empty deque raises IndexError: the thread ends at "error"
RecvPop(th) ==
    /\ ppc[th] = "pop"
    /\ UNCHANGED psent
    /\ IF pp.queue = <<>>
       THEN /\ ppc' = [ppc EXCEPT ![th] = "error"]
            /\ UNCHANGED <<pp, precv>>
       ELSE /\ pp' = queue_popleft(pp).pipe
            /\ precv' = Append(precv, queue_popleft(pp).obj)
            /\ ppc' = [ppc EXCEPT ![th] = "read"]

PipeNext ==
    \/ (\E th \in DOMAIN ppc : SendAppend(th) /\ UNCHANGED <<avars, mvars, tvars>>)
    \/ (\E th \in DOMAIN ppc : SendWrite(th) /\ UNCHANGED <<avars, mvars, tvars>>)
    \/ (\E th \in DOMAIN ppc : RecvRead(th) /\ UNCHANGED <<avars, mvars, tvars>>)
    \/ (\E th \in DOMAIN ppc : RecvPop(th) /\ UNCHANGED <<avars, mvars, tvars>>)

PipeSpec == PipeInit /\ [][PipeNext]_vars


(***************************************************************************)
(* The claims.                                                             *)
(***************************************************************************)
LastCall == trace[Len(trace)]

\* the last part of next() ran the body of a state to its end
BodyRan == trace # <<>> /\ trace[1].call = "body" /\ trace[1].res = "ok"

\* C1, as claimed: whenever run() has executed the body of a state marked
\* final, run() has returned exactly the value that body returned, running is
\* False and no further step is taken (the driving thread is in no call).
C1_RunReturnsFinalValue_AsClaimed ==
    (caller = "run" /\ BodyRan /\ states[trace[1].name].final)
    => /\ pc = "idle"
       /\ ~self.running
       /\ self.state.state = trace[1].name
       /\ result = Result("Return", StateRun(self.state), "StopIteration")

\* C1, amended: the same for a state marked final and not marked error.
C1_RunReturnsFinalValue ==
    (caller = "run" /\ BodyRan /\ states[trace[1].name].final
                    /\ ~states[trace[1].name].error)
    => /\ pc = "idle"
       /\ ~self.running
       /\ trace = <<Call("body", self.state.state, "ok")>>
       /\ result = Result("Return", StateRun(self.state), "StopIteration")

C1_Witness ==
    /\ caller = "run" /\ BodyRan
    /\ self.state = NewStateRequested("END", Val(42))
    /\ result = Result("Return", Val(42), "StopIteration")
    /\ ~self.running

\* C2: a step that enters a state marked error runs its body, evaluates no
\* condition, sets running to False and raises ErrorState with the body's
\* output, the current state unchanged; this also when the state is marked
\* final, which then never ends the run normally.
C2_ErrorStateRaised ==
    (BodyRan /\ states[trace[1].name].error)
    => /\ trace = <<Call("body", self.state.state, "ok")>>
       /\ pc = "idle"
       /\ ~self.running
       /\ self.state = snap.state
       /\ result = Result("ErrorState", StateRun(self.state), self.state.state)

C2_Witness ==
    /\ BodyRan /\ states[trace[1].name].error /\ states[trace[1].name].final
    /\ result.kind = "ErrorState" /\ result.value = Val(99)

\* state s has no receive condition, no I/O-event condition and no timeout
DeadEnd(s) ==
    \A m \in Range(decorated) :
        m.type \in {ATMT_RECV, ATMT_IOEVENT, ATMT_TIMEOUT} => m.state # s

\* C3: a step that enters a state neither final nor error that has no
\* receive condition, no I/O-event condition and no timeout, and in which no
\* immediate condition requests a transition (and no callback is cut short),
\* raises Stuck with the state's output without calling select, after all
\* immediate conditions were evaluated; the current state is unchanged.
C3_StuckRaised ==
    ( /\ BodyRan
      /\ ~states[trace[1].name].final /\ ~states[trace[1].name].error
      /\ DeadEnd(trace[1].name)
      /\ \A i \in 2..Len(trace) : trace[i].call = "cond" => trace[i].res = "pass" )
    => /\ pc = "idle"
       /\ self.running
       /\ self.state = snap.state
       /\ self.state.state = trace[1].name
       /\ Len(trace) = 1 + Len(conditions[self.state.state])
       /\ \A i \in 2..Len(trace) : trace[i].call = "cond"
       /\ result = Result("Stuck", Normalize(StateRun(self.state)),
                          self.state.state)

C3_Witness ==
    /\ result = Result("Stuck", Tuple(<<3>>), "MID")
    /\ trace = <<Call("body", "MID", "ok"), Call("cond", "mid_end", "pass")>>


\* C4: with a breakpoint on the state about to be entered and the marker of
\* the last pause clear, the step raises Breakpoint for that state before
\* any callback runs and leaves the current state in place with the marker
\* set; the step that follows a pause enters that same state (its body is
\* invoked) without raising Breakpoint and clears the marker, so that a later
\* entry of the state raises again.
C4_BreakpointOnce ==
    [][ NextEnter =>
          /\ ( /\ self.running
               /\ self.state.state \in self.breakpoints
               /\ self.breakpointed = "None" )
             => /\ result' = Result("Breakpoint", NoneV, self.state.state)
                /\ trace' = <<>>
                /\ pc' = "idle"
                /\ self' = [self EXCEPT !.breakpointed = self.state.state]
          /\ self.breakpointed # "None"
             => /\ self.running
                /\ self.state.state = self.breakpointed
                /\ result'.kind # "Breakpoint"
                /\ trace' # <<>>
                /\ trace'[1].call = "body"
                /\ trace'[1].name = self.breakpointed
                /\ self'.breakpointed = "None" ]_vars

\* a resumed step has entered MID, which is still in the breakpoint set
C4_Witness ==
    /\ BodyRan
    /\ trace[1].name = "MID"
    /\ "MID" \in self.breakpoints
    /\ self.breakpointed = "None"

\* C5: remove_breakpoints(S) ends without error and leaves S out of the
\* breakpoint set.
C5_RemoveBreakpointsRemoves ==
    [][ \A bp \in BpArgs :
          remove_breakpoints(bp)
          => (bp \notin self'.breakpoints /\ result'.kind = "Return") ]_vars

\* the entries of the session log that are received packets, and the copies
Received(L) == SelectSeq(L, LAMBDA e : ~e.copy)
Copies(L) == SelectSeq(L, LAMBDA e : e.copy)

\* C6: the received packets in the session log are exactly the packets for
\* which a receive condition requested a transition, each once; the copies in
\* the log are, in order, the packets the send socket took from send() since
\* the log was created (one per successful send, none for a refused one).
C6_LogFidelity ==
    self.packets.defined
    => LET rcv == Received(self.packets.list)
           cps == Copies(self.packets.list)
       IN /\ {rcv[i].id : i \in DOMAIN rcv} = fired
          /\ \A i, j \in DOMAIN rcv : rcv[i].id = rcv[j].id => i = j
          /\ [i \in DOMAIN cps |-> cps[i].id] = wire

\* packet 1 was read and not logged, packet 2 fired, and a copy was logged
C6_Witness ==
    /\ self.packets.defined
    /\ ninj = 2 /\ sockq = <<>> /\ fired = {2}
    /\ Len(Copies(self.packets.list)) = 1
    /\ Len(Received(self.packets.list)) = 1


\* C7: with one producer and one consumer on an ObjectPipe, the k-th
\* completed recv() returned the object of the k-th send(), the completed
\* recv() calls never outnumber the send() calls that have started, and the
\* consumer never finds the deque empty.
C7_PipeFifo ==
    DOMAIN ppc = {"p1", "c1"}
    => /\ Len(precv) <= Len(psent)
       /\ \A k \in DOMAIN precv : precv[k] = psent[k]
       /\ ppc["c1"] # "error"

\* two recv() calls completed while the producer is inside its third send()
C7_Witness ==
    /\ DOMAIN ppc = {"p1", "c1"}
    /\ Len(precv) = 2
    /\ Len(psent) = 3
    /\ ppc["p1"] = "write"


\* every object queued on a pipe was sent through the endpoint that writes it
CrossQueued ==
    \A n \in IoNames :
       /\ \A i \in DOMAIN pipes[<<"ioin", n>>].queue :
             pipes[<<"ioin", n>>].queue[i] = Obj("io", n)
       /\ \A i \in DOMAIN pipes[<<"ioout", n>>].queue :
             pipes[<<"ioout", n>>].queue[i] = Obj("oi", n)

\* what a recv() on an endpoint returned was sent on the opposite endpoint
\* of the same name
CrossReceived ==
    /\ got.side = "oi" => got.obj = Obj("io", got.n)
    /\ got.side = "io" => got.obj = Obj("oi", got.n)

\* the descriptor of an endpoint is the read descriptor of its read pipe, and
\* the pipe next() polls for the events of n is the read pipe of oi.n
CrossDescriptors ==
    \A n \in IoNames :
       /\ IO_wrapper_fileno("io", n) = PipeRd(<<"ioout", n>>)
       /\ IO_wrapper_fileno("oi", n) = PipeRd(<<"ioin", n>>)
       /\ IO_wrapper("oi", n).rd = <<"ioin", n>>
       /\ IO_wrapper("io", n).rd # IO_wrapper("oi", n).rd

\* the automaton is blocked in IDLE, whose I/O event on cmd always requests
\* ACK, and an object sent with io.cmd.send is queued
WaitingWithEvent ==
    /\ pc = "select"
    /\ self.state.state = "IDLE"
    /\ Readable(pipes[IO_wrapper("io", "cmd").wr])

\* C8: an object sent with io.n.send is queued on ioin[n], the pipe next()
\* polls, and only oi.n.recv returns it; an object sent with oi.n.send is
\* queued on ioout[n] and only io.n.recv returns it; the descriptor of each
\* endpoint is that of its read pipe; and once io.cmd.send has queued an
\* object for an automaton blocked in IDLE, the automaton moves to ACK unless
\* the user interrupts the wait first.
C8_CrossWired ==
    /\ [](CrossQueued /\ CrossReceived /\ CrossDescriptors)
    /\ WaitingWithEvent
       ~> ( \/ self.state.state = "ACK"
            \/ (pc = "idle" /\ trace # <<>>
                /\ LastCall = Call("select", "", "KeyboardInterrupt")) )

\* the I/O event of IDLE read the object io.cmd sent and ACK was installed
C8_Witness ==
    /\ got = [side |-> "oi", n |-> "cmd", obj |-> Obj("io", "cmd")]
    /\ self.state.state = "ACK"
    /\ trace # <<>>
    /\ LastCall = Call("cond", "ev_go", "req")


\* run() has just returned because a KeyboardInterrupt struck inside a step
Interrupted ==
    /\ pc = "idle"
    /\ caller = "run"
    /\ trace # <<>>
    /\ LastCall.res = "KeyboardInterrupt"

\* a further run() of an interrupted automaton takes its next step from the
\* state it has, without calling start
ResumesWithoutStart ==
    [][ (Interrupted /\ Run)
        => (pc' = "step" /\ self' = self /\ nstart' = nstart) ]_vars

LogPlusTrigger ==
    /\ LastCall.call = "action"
    /\ \E pkt \in fired :
          self.packets.list =
             Append(snap.packets.list, [id |-> pkt, copy |-> FALSE])
    /\ \E i \in DOMAIN trace, c \in DOMAIN decorated :
          /\ decorated[c].type = ATMT_RECV
          /\ trace[i] = Call("cond", decorated[c].name, "req")

ActionRaised(i) == trace[i].call = "action" /\ trace[i].res = "raise"

\* the calls from the k-th on are a condition that requested a transition and
\* then its actions in table order, each once, the last one raising
RequestThenActions(k) ==
    /\ trace[k].call = "cond" /\ trace[k].res = "req"
    /\ LET acts == actions[trace[k].name]
       IN /\ Len(trace) - k <= Len(acts)
          /\ \A j \in 1..(Len(trace) - k) :
                trace[k + j] = Call("action", acts[j].name,
                                    IF k + j = Len(trace) THEN "raise" ELSE "ok")

\* C10: when an action raises while a requested transition is committed, that
\* call is the last thing the step did: the exception has left next() (and
\* run()), the actions of the condition that precede it ran once each and
\* those that follow it did not run, and the current state is the one the
\* step began with, not the requested one.
C10_ActionRaises ==
    \A i \in DOMAIN trace :
       ActionRaised(i)
       => /\ i = Len(trace)
          /\ pc = "idle"
          /\ result = Result("Exception", NoneV, "")
          /\ self.state = snap.state
          /\ \E k \in 1..(i - 1) : RequestThenActions(k)

\* act_b, the first of the two actions of r_seven, raised: act_a did not run
\* and the automaton is still in WAIT, not in END
C10_Witness ==
    /\ trace # <<>>
    /\ LastCall = Call("action", "act_b", "raise")
    /\ Len(actions["r_seven"]) = 2
    /\ actions["r_seven"][1].name = "act_b"
    /\ self.state.state = "WAIT"
    /\ fired # {}


\* C11: a class statement that declares no initial state does not produce a
\* class: Automaton_metaclass.__new__ rejects it.
C11_NoInitialRejected ==
    (mcls.built /\ mcls.reg.states # {} /\ mcls.reg.initial_states = <<>>)
    => mcls.reg.exc # "None"


\* C12: whatever run() and run_bg() calls are made on one instance, at most
\* one thread is inside next() at a time, and start() is executed at most
\* once while the automaton is running.
C12_OneThreadSteps ==
    /\ Cardinality({th \in Threads : tpc[th] = "next"}) <= 1
    /\ tstarts <= 1


\* the i-th call of the step is a condition that requested a transition
Requested(i) == trace[i].call = "cond" /\ trace[i].res = "req"

\* the member of the class with that name
MemberNamed(n) == CHOOSE m \in Range(decorated) : m.name = n

\* C13: once a condition of a step has requested a transition, the step
\* evaluates nothing but that condition's actions (no further condition, no
\* read of the socket, no select) and ends; when the actions completed, the
\* current state is a target of that condition and next() has returned the
\* request (run() goes on to its next step); otherwise the exception of the
\* action left the step with the state it began with.
C13_OneTransitionPerStep ==
    \A i \in DOMAIN trace :
       Requested(i)
       => /\ \A j \in (i + 1)..Len(trace) : trace[j].call = "action"
          /\ pc # "select"
          /\ \/ /\ \A j \in (i + 1)..Len(trace) : trace[j].res = "ok"
                /\ Len(trace) - i = Len(actions[trace[i].name])
                /\ \E r \in MemberNamed(trace[i].name).targets :
                      self.state.state = r.state
                /\ IF caller = "run"
                   THEN pc = "step" /\ result = NoResult
                   ELSE pc = "idle"
                        /\ result = Result("Return", NoneV, self.state.state)
             \/ /\ Len(trace) > i
                /\ LastCall.res # "ok"
                /\ pc = "idle"
                /\ self.state = snap.state

\* r_any, the first receive condition of WAIT, took the packet to MID: r_seven
\* was not evaluated for it and the readable aux pipe was not served
C13_Witness ==
    /\ trace = <<Call("recv", "pkt", "ok"), Call("cond", "r_any", "req")>>
    /\ self.state.state = "MID"
    /\ snap.state.state = "WAIT"
    /\ Readable(pipes[<<"ioin", "aux">>])


\* C14: whenever a step goes to select, every timeout of the state that has
\* not fired yet has a deadline above the elapsed time (those at or below it
\* were invoked first), and select is never called with a negative time.
C14_ElapsedTimeoutsFirst ==
    /\ [] ~( trace # <<>> /\ LastCall = Call("select", "negative", "raise") )
    /\ [][ ((NextEnter \/ NextWake) /\ pc' = "select")
           => (loop'.wake = -1 \/ loop'.wake > elapsed') ]_vars


\* C15: a turn of the dispatch loop that invokes the I/O-event conditions of
\* a readable pipe has taken exactly one object off that pipe.
C15_LoopReadsPipe ==
    [][ NextWake
        => \A i \in DOMAIN trace' :
              \A c \in {m \in Range(decorated) : m.type = ATMT_IOEVENT} :
                 (trace'[i].call = "cond" /\ trace'[i].name = c.name)
                 => Len(pipes'[<<"ioin", c.ioname>>].queue)
                       = Len(pipes[<<"ioin", c.ioname>>].queue) - 1 ]_vars


\* the calls in tr that are invocations of a timeout condition
TimeoutCalls(tr) ==
    {i \in DOMAIN tr : /\ tr[i].call = "cond"
                       /\ MemberNamed(tr[i].name).type = ATMT_TIMEOUT}

\* the table of every state is in non-decreasing deadline order, sentinel last
TimeoutsSorted ==
    \A s \in StateNames :
       LET T == timeouts[s]
       IN /\ T[Len(T)] = Sentinel
          /\ \A i, j \in 1..(Len(T) - 1) :
                /\ T[i] # Sentinel
                /\ i <= j => T[i].timeout <= T[j].timeout

\* a turn of the dispatch loop invokes at most one timeout: the first one of
\* the table not invoked yet in this entry, and only with its deadline reached
FiresInOrder ==
    [][ NextWake
        => LET T == timeouts[self.state.state]
           IN /\ Cardinality(TimeoutCalls(trace')) <= 1
              /\ \A i \in TimeoutCalls(trace') :
                    /\ trace'[i].name = T[loop.exp].name
                    /\ T[loop.exp].timeout <= elapsed
              /\ pc' = "select"
                 => loop'.exp = loop.exp + Cardinality(TimeoutCalls(trace')) ]_vars

\* a state entry starts its timers anew: the clock at zero and the first
\* timeout of the table the next to fire
TimersRestart ==
    [][ NextEnter
        => /\ elapsed' = 0
           /\ pc' = "select"
              => LET T == timeouts[self'.state.state]
                 IN /\ Cardinality(TimeoutCalls(trace')) <= 1
                    /\ \A i \in TimeoutCalls(trace') :
                          /\ trace'[i].name = T[1].name
                          /\ T[1].timeout <= 0
                    /\ loop'.exp = 1 + Cardinality(TimeoutCalls(trace')) ]_vars

\* C16: within one state entry the timeouts fire in non-decreasing deadline
\* order, none before the time elapsed since the dispatch loop began has
\* reached its deadline and none twice; a state entry restarts the timers
\* from zero.
C16_TimeoutOrder ==
    /\ []TimeoutsSorted
    /\ FiresInOrder
    /\ TimersRestart

\* in WAIT, t_resend (deadline 1, declared second) and then t_giveup
\* (deadline 2) have fired without a transition; no timer is left
C16_Witness ==
    /\ pc = "select"
    /\ self.state.state = "WAIT"
    /\ loop.exp = 3 /\ loop.wake = -1
    /\ elapsed >= 2
    /\ \E i \in DOMAIN trace : trace[i] = Call("cond", "t_giveup", "pass")


\* the calls of the step that invoke a condition of the given type
CondCalls(type) ==
    {i \in DOMAIN trace : /\ trace[i].call = "cond"
                          /\ MemberNamed(trace[i].name).type = type}

\* those calls were made in non-decreasing priority order
InPrioOrder(type) ==
    \A i, j \in CondCalls(type) :
       i < j => MemberNamed(trace[i].name).prio <= MemberNamed(trace[j].name).prio

\* the actions run for a condition that requested a transition were run in
\* non-decreasing order of their priority for that condition
ActionsInPrioOrder ==
    \A k \in DOMAIN trace :
       Requested(k)
       => \A i, j \in (k + 1)..Len(trace) :
             (i < j /\ trace[i].call = "action" /\ trace[j].call = "action")
             => ActPrio(MemberNamed(trace[i].name), trace[k].name)
                   <= ActPrio(MemberNamed(trace[j].name), trace[k].name)

\* C17: the immediate conditions of a step, the receive conditions offered
\* one packet and the I/O-event conditions invoked at one wakeup are each
\* invoked in non-decreasing priority order, and the actions of a firing
\* condition in non-decreasing order of their priority for that condition.
C17_PriorityOrder ==
    /\ InPrioOrder(ATMT_CONDITION)
    /\ InPrioOrder(ATMT_RECV)
    /\ InPrioOrder(ATMT_IOEVENT)
    /\ ActionsInPrioOrder


\* the calls in tr that are reads of the listening socket
RecvCalls(tr) == {i \in DOMAIN tr : tr[i].call = "recv"}

\* the calls in tr that invoke a receive condition
RecvCondCalls(tr) ==
    {i \in DOMAIN tr : /\ tr[i].call = "cond"
                       /\ MemberNamed(tr[i].name).type = ATMT_RECV}

\* C18: a turn of the dispatch loop takes at most one packet off the
\* listening socket and leaves the packets behind it there; the packet is
\* offered to the receive conditions of the state in table order, to all of
\* them unless one requests a transition, and then the step ends without a
\* further read.
C18_OnePacketAtATime ==
    [][ NextWake
        => LET R == RecvCalls(trace')
               n == Cardinality(RecvCondCalls(trace'))
               rc == recv_conditions[self.state.state]
           IN /\ Cardinality(R) <= 1
              /\ sockq' = IF R = {} THEN sockq ELSE Tail(sockq)
              /\ \A k \in R :
                    trace'[k].name = "pkt"
                    => /\ \A j \in 1..n : trace'[k + j].name = rc[j].name
                       /\ \/ n = Len(rc)
                          \/ n >= 1 /\ trace'[k + n].res = "req"
                       /\ (n >= 1 /\ trace'[k + n].res = "req")
                          => pc' # "select" ]_vars

\* r_any took packet 1 to MID while a second frame was pending: it is still
\* on the socket
C18_Witness ==
    /\ trace = <<Call("recv", "pkt", "ok"), Call("cond", "r_any", "req")>>
    /\ self.state.state = "MID"
    /\ fired = {1}
    /\ ninj = 2
    /\ Len(sockq) = 1


\* C19: the frame a turn of the dispatch loop reads from the listening
\* socket is offered to the receive conditions only if recv() returned a
\* packet and master_filter accepted it; after a null read or a rejected
\* packet the turn invokes no receive condition, leaves the session log as it
\* was and goes on with the loop: the step does not end at the read, and ends
\* in this turn only if another condition requests a transition or select
\* fails.
C19_FilteredNotOffered ==
    [][ NextWake
        => \A k \in RecvCalls(trace') :
              LET f == Head(sockq)
              IN /\ trace'[k].name = "pkt" <=> f > 0
                 /\ trace'[k].name = "None" <=> f = 0
                 /\ trace'[k].name = "filtered" <=> f < 0
                 /\ RecvCondCalls(trace') # {} => f > 0
                 /\ f <= 0
                    => /\ RecvCondCalls(trace') = {}
                       /\ self'.packets = self.packets
                       /\ fired' = fired
                       /\ k < Len(trace')
                       /\ \/ pc' = "select" /\ self'.state = self.state
                          \/ \E i \in (k + 1)..Len(trace') :
                                trace'[i].call = "cond" /\ trace'[i].res = "req"
                          \/ trace'[Len(trace')].call = "select"
                             /\ trace'[Len(trace')].res = "raise" ]_vars

\* in WAIT a rejected packet was read and the automaton is waiting again
C19_Witness ==
    /\ trace = <<Call("recv", "filtered", "ok"), Call("select", "remain", "ok")>>
    /\ pc = "select"
    /\ self.state.state = "WAIT"
    /\ self.packets.list = <<>>
    /\ sockq = <<>>


\* the i-th call of the step polls a descriptor or evaluates a condition
\* that is not an immediate one
PollsOrTimes(i) ==
    \/ trace[i].call \in {"select", "recv"}
    \/ /\ trace[i].call = "cond"
       /\ MemberNamed(trace[i].name).type # ATMT_CONDITION

\* C20: in the part of a step that enters a state, every immediate condition
\* of the state has been evaluated and has declined before a timeout, a
\* receive or an I/O-event condition is evaluated or select or the socket is
\* touched; entering the state reads neither the socket nor a pipe, whatever
\* is pending on them.
C20_ImmediateFirst ==
    /\ [] ( BodyRan
            => \A i \in DOMAIN trace :
                  PollsOrTimes(i)
                  => \A c \in Range(decorated) :
                        (c.type = ATMT_CONDITION /\ c.state = trace[1].name)
                        => \E j \in 2..(i - 1) :
                              trace[j] = Call("cond", c.name, "pass") )
    /\ [][ (NextEnter /\ self.running)
           => (sockq' = sockq /\ pipes' = pipes) ]_vars

\* POLL entered with a frame on the socket and an object in the aux pipe:
\* p_now was evaluated, then t_zero (deadline 0), then select was called
C20_Witness ==
    /\ trace = << Call("body", "POLL", "ok"), Call("cond", "p_now", "pass"),
                  Call("cond", "t_zero", "pass"), Call("select", "None", "ok") >>
    /\ pc = "select"
    /\ elapsed = 0
    /\ sockq # <<>>
    /\ Readable(pipes[<<"ioin", "aux">>])


\* the current state has an I/O-event condition bound to pipe name n
PollsPipe(n) ==
    \E i \in DOMAIN ioevents[self.state.state] :
       ioevents[self.state.state][i].ioname = n

\* the current state has a receive condition
PollsSocket == Len(recv_conditions[self.state.state]) > 0

\* C21: a turn of the dispatch loop is woken only by a source the current
\* state polls (the socket if the state has a receive condition, the pipe of
\* a name one of its I/O-event conditions is bound to) or by its timer; it
\* reads the socket exactly when the state has a receive condition and a
\* frame is pending, and it leaves alone the socket of a state without
\* receive condition and every pipe no I/O-event condition of the state is
\* bound to.
C21_PollsOnlyDeclared ==
    [][ NextWake
        => /\ \/ PollsSocket /\ sockq # <<>>
              \/ \E n \in IoNames :
                    PollsPipe(n) /\ Readable(pipes[<<"ioin", n>>])
              \/ loop.wake >= 0 /\ elapsed >= loop.wake
           /\ (PollsSocket /\ sockq # <<>>) <=> RecvCalls(trace') # {}
           /\ ~PollsSocket => sockq' = sockq
           /\ \A id \in PipeIds :
                 pipes'[id] # pipes[id] => (id[1] = "ioin" /\ PollsPipe(id[2])) ]_vars

\* IDLE polls the cmd pipe only: its I/O event took the automaton to ACK
\* while a frame on the socket and an object in the aux pipe stayed pending
C21_Witness ==
    /\ trace = <<Call("cond", "ev_go", "req")>>
    /\ snap.state.state = "IDLE"
    /\ self.state.state = "ACK"
    /\ sockq # <<>>
    /\ Readable(pipes[<<"ioin", "aux">>])


\* the calls of send() and recv() that are between their two statements
InProgress == {th \in DOMAIN ppc : ppc[th] \in {"write", "pop"}}

\* C22: the queue of an ObjectPipe holds one object per unread byte of its OS
\* pipe, plus one for every send() that has queued its object and not yet
\* written its byte and for every recv() that has read its byte and not yet
\* taken its object: whenever no call is in progress the two numbers are
\* equal.
C22_QueueMatchesBytes ==
    /\ Len(pp.queue) = pp.bytes + Cardinality(InProgress)
    /\ InProgress = {} => Len(pp.queue) = pp.bytes

\* two objects are queued and two bytes unread, no call in progress, after a
\* first object was received
C22_Witness ==
    /\ InProgress = {}
    /\ Len(pp.queue) = 2 /\ pp.bytes = 2
    /\ Len(precv) = 1


\* the four per-state tables of the class that was built
StateTables ==
    << mcls.reg.conditions, mcls.reg.recv_conditions, mcls.reg.ioevents,
       mcls.reg.timeout >>

\* every condition the class declares names one of its states, every action
\* names only conditions the class declares
WellReferenced ==
    \A m \in Range(mcls.decl) :
       /\ IsCond(m) => \E x \in Range(mcls.decl) : IsState(x) /\ x.name = m.state
       /\ m.type = ATMT_ACTION
          => \A p \in m.cond :
                \E x \in Range(mcls.decl) : IsCond(x) /\ x.name = p[1]

\* C23: the class statement succeeds exactly when every condition names a
\* declared state and every action names declared conditions only; then every
\* state is a key of conditions, recv_conditions, ioevents and timeout, every
\* condition is listed in the table of its kind under its own state and
\* nowhere else, and the actions table has the condition names as its keys
\* and lists each action under precisely the conditions it names.
C23_RegistryTotal ==
    mcls.built
    => /\ mcls.reg.exc = "None" <=> WellReferenced
       /\ mcls.reg.exc = "None"
          => /\ \A t \in DOMAIN StateTables :
                   /\ DOMAIN StateTables[t] = mcls.reg.states
                   /\ \A s \in mcls.reg.states :
                         \A i \in DOMAIN StateTables[t][s] :
                            StateTables[t][s][i] # Sentinel
                            => /\ StateTables[t][s][i].state = s
                               /\ StateTables[t][s][i] \in Range(mcls.decl)
             /\ \A m \in Range(mcls.decl) :
                   IsCond(m)
                   => /\ m.state \in mcls.reg.states
                      /\ \E t \in DOMAIN StateTables :
                            m \in Range(StateTables[t][m.state])
             /\ DOMAIN mcls.reg.actions
                   = {m.name : m \in {x \in Range(mcls.decl) : IsCond(x)}}
             /\ \A c \in DOMAIN mcls.reg.actions :
                   \A m \in Range(mcls.decl) :
                      m.type = ATMT_ACTION
                      => ( m \in Range(mcls.reg.actions[c])
                           <=> \E p \in m.cond : p[1] = c )

\* a class with the states S1 and S2, all four kinds of condition and the
\* action a1 listed under c1 and r1 was built
C23_Witness ==
    /\ mcls.built /\ mcls.reg.exc = "None"
    /\ {"S1", "S2"} \subseteq mcls.reg.states
    /\ {"c1", "r1"} \subseteq DOMAIN mcls.reg.actions
    /\ Len(mcls.reg.conditions["S1"]) = 1
    /\ Len(mcls.reg.recv_conditions["S1"]) = 1
    /\ Len(mcls.reg.ioevents["S2"]) = 1
    /\ Len(mcls.reg.timeout["S2"]) = 2
    /\ Len(mcls.reg.actions["c1"]) = 1 /\ Len(mcls.reg.actions["r1"]) = 1


\* a state that has timeouts, none of which can request a transition, and
\* neither receive nor I/O-event conditions
TimeoutsOnly(st) ==
    /\ Len(timeouts[st]) > 1
    /\ Len(recv_conditions[st]) = 0
    /\ Len(ioevents[st]) = 0
    /\ \A i \in 1 .. Len(timeouts[st]) - 1 :
          timeouts[st][i].targets = {} /\ ~timeouts[st][i].must

\* next() is in select in such a state with every timeout behind it
Lingering ==
    /\ pc = "select"
    /\ TimeoutsOnly(self.state.state)
    /\ loop.exp = Len(timeouts[self.state.state])

\* C24: in a state with timeouts only, none of which requests a transition,
\* the step never raises Stuck, and once the last timeout has fired select is
\* called on no descriptor and with no timeout: nothing wakes it, the step
\* stays in select and only the user's interruption ends it.
C24_BlocksForever ==
    /\ [](  /\ result.kind = "Stuck" => ~TimeoutsOnly(result.name)
            /\ Lingering => /\ loop.wake = -1
                            /\ Fds(self) = <<>>
                            /\ Ready(Mach) = <<>> )
    /\ [][ Lingering
           => \/ /\ pc' = "select"
                 /\ UNCHANGED <<self, loop, trace, result, caller>>
              \/ /\ pc' # "select"
                 /\ result'.kind \in {"KeyboardInterrupt", "Return"}
                 /\ trace'[Len(trace')].res = "KeyboardInterrupt" ]_vars

\* the last timeout of LINGER has passed and next() is in select again
C24_Witness ==
    /\ Lingering
    /\ self.state.state = "LINGER"
    /\ elapsed = MaxElapsed
    /\ trace = << Call("cond", "t_last", "pass"), Call("select", "None", "ok") >>


\* the last call of run()/next() ended in a final or error state
EndedTerminal ==
    /\ pc = "idle"
    /\ \/ result.kind \in {"StopIteration", "ErrorState"}
       \/ result.kind = "Return" /\ result.name = "StopIteration"

\* the last call of run()/next() ended with Stuck, Breakpoint or the user's
\* interruption
EndedPaused ==
    /\ pc = "idle"
    /\ \/ result.kind \in {"Stuck", "Breakpoint", "KeyboardInterrupt"}
       \/ result = Result("Return", NoneV, "break")

\* what start() sets the current state to
FirstInitial == NewStateRequested(initial_states[1].name, NoneV)

\* C25: after a call that ended in a final or error state running is False
\* and the following run() or next() calls start: the current state is the
\* first initial state again and, start succeeding, the session log is new
\* and empty and both sockets are open before the first body runs; after
\* Stuck, Breakpoint or an interruption running is still True and the
\* following run() goes on from the current state, unchanged, without start.
C25_RestartOrResume ==
    /\ []( /\ EndedTerminal => ~self.running /\ IsTerminal(self.state.state)
           /\ EndedPaused => self.running /\ self.state = snap.state )
    /\ [][ /\ (EndedTerminal /\ Run)
              => /\ nstart' = nstart + 1
                 /\ self'.running
                 /\ self'.state = FirstInitial
                 /\ pc' = "step"
                    => /\ self'.packets = NewLog
                       /\ self'.send_sock = "open" /\ self'.listen_sock = "open"
                       /\ sockq' = <<>>
                 /\ pc' # "step" => result' = Result("Exception", NoneV, "socket.error")
           /\ (pc = "step" /\ ~self.running /\ nstart > 0 /\ NextEnter)
              => /\ nstart' = nstart + 1
                 /\ IF snap' = NoSnap
                    THEN /\ result' = Result("Exception", NoneV, "socket.error")
                         /\ self'.state = FirstInitial
                         /\ self'.running
                    ELSE /\ snap'.state = FirstInitial
                         /\ snap'.packets = NewLog
                         /\ trace' # <<>> => trace'[1].name = FirstInitial.state
           /\ (EndedPaused /\ Run)
              => /\ pc' = "step"
                 /\ self' = self
                 /\ nstart' = nstart ]_vars

\* a run() that follows a call ended in a final or error state has started
\* the automaton again
C25_Witness ==
    /\ pc = "step" /\ caller = "run"
    /\ nstart = 2
    /\ trace = <<>>
    /\ result = NoResult
    /\ self.state = FirstInitial
    /\ self.packets = NewLog
    /\ self.listen_sock = "open"


\* the last call of run()/next() was cut short inside the dispatch loop, by
\* the user or by an exception
AbortedInLoop ==
    /\ pc = "idle"
    /\ trace # <<>> /\ trace[1].call # "body"
    /\ \/ result.kind \in {"Exception", "KeyboardInterrupt"}
       \/ result = Result("Return", NoneV, "break")

\* the calls of tr that run the body of a state
BodyCalls(tr) == {i \in DOMAIN tr : tr[i].call = "body"}

\* the step entered st: its body ran, once and first, then its immediate
\* conditions from the first of the table on; having reached select, all of
\* them were evaluated, the clock is at zero and the first timeout of the
\* table is the next to fire unless its deadline is zero
Reenters(st, tr, lp, el) ==
    /\ BodyCalls(tr) = {1}
    /\ tr[1].name = st
    /\ el = 0
    /\ (tr[1].res = "ok" /\ ~IsTerminal(st) /\ conditions[st] # <<>>)
       => /\ Len(tr) >= 2
          /\ tr[2].call = "cond" /\ tr[2].name = conditions[st][1].name
    /\ tr[Len(tr)].call = "select" /\ tr[Len(tr)].res = "ok"
       => /\ \A i \in DOMAIN conditions[st] :
                tr[1 + i] = Call("cond", conditions[st][i].name, "pass")
          /\ LET T == timeouts[st]
                 zero == T[1] # Sentinel /\ T[1].timeout <= 0
             IN /\ lp.exp = IF zero THEN 2 ELSE 1
                /\ zero <=> tr[Len(tr) - 1] = Call("cond", T[1].name, "pass")
                /\ lp.wake = IF T[lp.exp] = Sentinel THEN -1 ELSE T[lp.exp].timeout

\* C26: a call cut short inside the dispatch loop leaves the automaton
\* running in the state the step began with, and the call that resumes it
\* enters that state anew: the body runs again (once per entering step, never
\* in a turn of the loop), the immediate conditions are evaluated again from
\* the first, and the timers restart from zero, so that a timeout that fired
\* before the abort is due again.
C26_ResumeReenters ==
    /\ []( AbortedInLoop => self.running /\ self.state = snap.state )
    /\ [][ /\ (AbortedInLoop /\ (Run \/ CallNext))
              => (pc' = "step" /\ self' = self /\ nstart' = nstart)
           /\ (NextEnter /\ self.running /\ ~BreakpointHit(self))
              => Reenters(self.state.state, trace', loop', elapsed')
           /\ NextWake => BodyCalls(trace') = {} ]_vars

\* WAIT holds a logged packet, so an action of r_seven was cut short there;
\* in the resumed entry t_resend has fired
C26_Witness ==
    /\ pc = "select"
    /\ self.state.state = "WAIT"
    /\ Received(self.packets.list) # <<>>
    /\ trace = << Call("cond", "t_resend", "pass"),
                  Call("select", "remain", "ok") >>
    /\ loop.exp = 2


\* the k-th call of the step is a receive condition that requested a
\* transition, and an action of it raised
RecvActionRaised(k) ==
    /\ RequestThenActions(k)
    /\ MemberNamed(trace[k].name).type = ATMT_RECV
    /\ Len(trace) > k /\ ActionRaised(Len(trace))

\* L2 is L1 with one received packet added at its end
OneMoreReceived(L1, L2) ==
    /\ Len(L2) = Len(L1) + 1
    /\ SubSeq(L2, 1, Len(L1)) = L1
    /\ ~L2[Len(L2)].copy

\* C27: when an action of a receive condition that requested a transition
\* raises, the step ends in the state it began with and the session log is the
\* one it began with plus the triggering packet; while the automaton is not
\* started again the log only grows, so that entry is still there when a
\* receive condition of the state fires later, next to the entry of that
\* packet.
C27_LogNotRolledBack ==
    /\ []( \A k \in DOMAIN trace :
              (RecvActionRaised(k) /\ snap.packets.defined)
              => /\ self.state = snap.state
                 /\ result.kind = "Exception"
                 /\ OneMoreReceived(snap.packets.list, self.packets.list)
                 /\ self.packets.list[Len(self.packets.list)].id \in fired )
    /\ [][ (nstart' = nstart /\ self.packets.defined)
           => /\ Len(self'.packets.list) >= Len(self.packets.list)
              /\ SubSeq(self'.packets.list, 1, Len(self.packets.list))
                    = self.packets.list ]_vars

\* one transition was made on a packet, from WAIT to END, and the log holds
\* two received packets: the first is that of a transition which an exception
\* in an action kept from being made
C27_Witness ==
    /\ self.state.state = "END"
    /\ snap.state.state = "WAIT"
    /\ trace # <<>> /\ trace[1] = Call("recv", "pkt", "ok")
    /\ Len(Received(self.packets.list)) = 2
    /\ Len(Received(snap.packets.list)) = 1


\* a call of run()/next() that ends in start(), a socket not opening
StartFails ==
    /\ Run \/ NextEnter
    /\ ~self.running
    /\ result' = Result("Exception", NoneV, "socket.error")

\* the automaton is marked running and has no session log
Incomplete == self.running /\ ~self.packets.defined

\* C28: when a socket cannot be opened in start(), the call ends with the
\* automaton marked running, in the first initial state, with the listening
\* socket and the session log it had before the call (none at a first
\* start); the following run() does not call start, and the step it takes
\* runs the body of the current state with the socket and the log still
\* missing.
C28_FailedStartStaysRunning ==
    /\ []( Incomplete => self.listen_sock = "undef" /\ nstart > 0 )
    /\ [][ /\ StartFails
              => /\ pc' = "idle"
                 /\ self'.running
                 /\ self'.state = FirstInitial
                 /\ self'.listen_sock = self.listen_sock
                 /\ self'.packets = self.packets
           /\ (Incomplete /\ Run)
              => (pc' = "step" /\ self' = self /\ nstart' = nstart)
           /\ (Incomplete /\ NextEnter)
              => /\ nstart' = nstart
                 /\ ~self'.packets.defined /\ self'.listen_sock = "undef"
                 /\ trace' # <<>> => trace'[1].name = self.state.state ]_vars

\* after a start that failed, a further call has run the body of BEGIN; the
\* automaton has no session log
C28_Witness ==
    /\ BodyRan
    /\ trace[1].name = "BEGIN"
    /\ self.running
    /\ nstart = 1
    /\ ~self.packets.defined
    /\ self.listen_sock = "undef"


\* the consumers that have read their byte and not popped yet
Popping == {th \in DOMAIN ppc : ppc[th] = "pop"}

\* C29: whatever the number of producers and consumers and however the
\* statements of their send() and recv() calls interleave, the pipe never
\* holds more unread bytes than queued objects, every consumer that has read
\* a byte still has an object of its own in the queue, and no recv() has
\* popped from an empty queue.
C29_BytesNeverAhead ==
    /\ pp.bytes <= Len(pp.queue)
    /\ pp.bytes + Cardinality(Popping) <= Len(pp.queue)
    /\ \A th \in DOMAIN ppc : ppc[th] # "error"
    /\ Len(precv) + Cardinality(Popping) <= Len(psent)

\* two consumers have each read a byte and are about to pop, the two
\* producers are inside send(): four objects queued, no byte left unread
C29_Witness ==
    /\ Popping = Consumers
    /\ \A th \in Producers : ppc[th] = "write"
    /\ pp.bytes = 0
    /\ Len(pp.queue) = 4

=============================================================================
